---------------------------- MODULE Spec2Model ----------------------------
(***************************************************************************)
(* A model of the key-value store server: the request parser               *)
(* (src/src/request_parsing.rs), the connection handler and request        *)
(* manager of the file-backed variant (src/src/lib.rs) and the in-memory   *)
(* server (src/src/main.rs).                                               *)
(*                                                                         *)
(* Text is modelled as the program holds it.  A socket delivers bytes      *)
(* (0..255); the handlers push each byte into a String with `byte as char`,*)
(* so a message is a sequence of code points 0..255, and String::len() is  *)
(* its UTF-8 length (two bytes for every code point above 127).            *)
(***************************************************************************)
EXTENDS Integers, Sequences, FiniteSets, TLC

(***************************************************************************)
(* Bounds of the model.                                                    *)
(***************************************************************************)
\* longest buffer handed to the parser in SpecParser
MaxLen == 11
\* bytes appended to a buffer after it stopped being an unfinished request
MaxExtra == 1

(***************************************************************************)
(* Bytes.  The input alphabet holds every byte of the two literals, one    *)
(* lowercase letter, a digit and a byte above 127.                         *)
(***************************************************************************)
\* "$", "1", "A", "D", "E", "L", "O", "R", "S", "T", "a", 0xE9
Alphabet == {36, 49, 65, 68, 69, 76, 79, 82, 83, 84, 97, 233}

\* static STORE: &str = "STORE$"
STORE == <<83, 84, 79, 82, 69, 36>>

\* static LOAD: &str = "LOAD$"
LOAD == <<76, 79, 65, 68, 36>>

\* String::len(): the length of the UTF-8 encoding
StrLen(s) == Len(s) + Cardinality({i \in DOMAIN s : s[i] > 127})

(***************************************************************************)
(* Regular expressions.  A pattern is a sequence of items: "bol" (^),      *)
(* "eol" ($, the end of the text only: the patterns set no multi-line      *)
(* flag), "lit" (one literal character) and "az*" (any run of a to z).     *)
(***************************************************************************)
Item(kind, ch) == [k |-> kind, c |-> ch]

Lit(s) == [i \in 1..Len(s) |-> Item("lit", s[i])]

\* r"^STORE\$[a-z]*\$[a-z]*\$"
RE_STORE_REQUEST ==
    <<Item("bol", 0)>> \o Lit(STORE) \o <<Item("az*", 0), Item("lit", 36),
      Item("az*", 0), Item("lit", 36)>>

\* r"^LOAD\$[a-z]*\$"
RE_LOAD_REQUEST ==
    <<Item("bol", 0)>> \o Lit(LOAD) \o <<Item("az*", 0), Item("lit", 36)>>

\* r"^STORE\$[a-z]*$"
RE_STORE_KEY == <<Item("bol", 0)>> \o Lit(STORE) \o <<Item("az*", 0), Item("eol", 0)>>

\* r"^STORE\$[a-z]*\$[a-z]*$"
RE_STORE_VALUE ==
    <<Item("bol", 0)>> \o Lit(STORE) \o <<Item("az*", 0), Item("lit", 36),
      Item("az*", 0), Item("eol", 0)>>

\* r"^LOAD\$[a-z]*$"
RE_LOAD_KEY == <<Item("bol", 0)>> \o Lit(LOAD) \o <<Item("az*", 0), Item("eol", 0)>>

\* items j.. of pattern p match the text m from position i on
RECURSIVE MatchAt(_, _, _, _)
MatchAt(m, i, p, j) ==
    IF j > Len(p) THEN TRUE
    ELSE CASE p[j].k = "bol" -> i = 1 /\ MatchAt(m, i, p, j + 1)
           [] p[j].k = "eol" -> i = Len(m) + 1 /\ MatchAt(m, i, p, j + 1)
           [] p[j].k = "lit" ->
                i <= Len(m) /\ m[i] = p[j].c /\ MatchAt(m, i + 1, p, j + 1)
           [] p[j].k = "az*" ->
                \/ MatchAt(m, i, p, j + 1)
                \/ i <= Len(m) /\ m[i] \in 97..122 /\ MatchAt(m, i + 1, p, j)

\* Regex::is_match: the pattern matches somewhere in the text
is_match(pattern, message) ==
    \E start \in 1..(Len(message) + 1) : MatchAt(message, start, pattern, 1)

\* Regex::new succeeds on each of the five patterns, so the result is Ok(bool)
match_regex(message, pattern) == is_match(pattern, message)

(***************************************************************************)
(* src/src/request_parsing.rs                                              *)
(***************************************************************************)
StoreRequest(key, value) == [type |-> "Store", key |-> key, value |-> value]

LoadRequest(key) == [type |-> "Load", key |-> key]

is_store_request(message) == match_regex(message, RE_STORE_REQUEST)

is_load_request(message) == match_regex(message, RE_LOAD_REQUEST)

\* a plausible slip: only the two patterns, no test of the literal's prefixes
could_become_store_request_patterns_only(message) ==
    \/ match_regex(message, RE_STORE_KEY)
    \/ match_regex(message, RE_STORE_VALUE)

\* a plausible slip: the pattern for an unfinished value is forgotten
could_become_store_request_key_only(message) ==
    IF StrLen(message) <= Len(STORE)
    THEN message = SubSeq(STORE, 1, StrLen(message))
    ELSE match_regex(message, RE_STORE_KEY)

\* a plausible slip: the second pattern lacks its end anchor
could_become_store_request_unanchored(message) ==
    IF StrLen(message) <= Len(STORE)
    THEN message = SubSeq(STORE, 1, StrLen(message))
    ELSE \/ match_regex(message, RE_STORE_KEY)
         \/ match_regex(message, SubSeq(RE_STORE_VALUE, 1, Len(RE_STORE_VALUE) - 1))

could_become_store_request(message) ==
    IF StrLen(message) <= Len(STORE)
    THEN message = SubSeq(STORE, 1, StrLen(message))
    ELSE \/ match_regex(message, RE_STORE_KEY)
         \/ match_regex(message, RE_STORE_VALUE)

\* a plausible slip: only the literal's prefixes, the pattern is forgotten
could_become_load_request_literal_only(message) ==
    /\ StrLen(message) <= Len(LOAD)
    /\ message = SubSeq(LOAD, 1, StrLen(message))

could_become_load_request(message) ==
    IF StrLen(message) <= Len(LOAD)
    THEN message = SubSeq(LOAD, 1, StrLen(message))
    ELSE match_regex(message, RE_LOAD_KEY)

\* message.match_indices('$'): the positions of "$", ascending
\* (the positions from i to j, found by halving so that a buffer of
\* MAX_MESSAGE_LENGTH bytes is searched in few nested calls)
RECURSIVE DollarsBetween(_, _, _)
DollarsBetween(message, i, j) ==
    IF i > j THEN <<>>
    ELSE IF i = j THEN (IF message[i] = 36 THEN <<i>> ELSE <<>>)
    ELSE LET mid == (i + j) \div 2
         IN  DollarsBetween(message, i, mid) \o DollarsBetween(message, mid + 1, j)

DollarsFrom(message, i) == DollarsBetween(message, i, Len(message))

match_indices(message) == DollarsFrom(message, 1)

\* a plausible slip: the rest keeps the request's last "$"
split_store_request_keeps_dollar(message) ==
    LET dollars == match_indices(message)
    IN  << SubSeq(message, dollars[1] + 1, dollars[2] - 1),
           SubSeq(message, dollars[2] + 1, dollars[3] - 1),
           SubSeq(message, dollars[3], Len(message)) >>

\* (key, value, rest)
split_store_request(message) ==
    LET dollars == match_indices(message)
    IN  << SubSeq(message, dollars[1] + 1, dollars[2] - 1),
           SubSeq(message, dollars[2] + 1, dollars[3] - 1),
           SubSeq(message, dollars[3] + 1, Len(message)) >>

\* (key, rest)
split_load_request(message) ==
    LET dollars == match_indices(message)
    IN  << SubSeq(message, dollars[1] + 1, dollars[2] - 1),
           SubSeq(message, dollars[2] + 1, Len(message)) >>

\* The result and the message as the call leaves it:
\* Ok(Some(request)), Ok(None) or Err(TaskError)
try_parse_request(message) ==
    IF is_store_request(message)
    THEN LET s == split_store_request(message)
         IN  [tag |-> "Some", request |-> StoreRequest(s[1], s[2]), message |-> s[3]]
    ELSE IF is_load_request(message)
    THEN LET s == split_load_request(message)
         IN  [tag |-> "Some", request |-> LoadRequest(s[1]), message |-> s[2]]
    ELSE IF could_become_store_request(message) \/ could_become_load_request(message)
    THEN [tag |-> "None", message |-> message]
    ELSE [tag |-> "Err", message |-> message]

(***************************************************************************)
(* The grammar of the protocol, stated apart from the parser's code.       *)
(***************************************************************************)
IsLower(s) == \A i \in DOMAIN s : s[i] \in 97..122

\* "STORE$" key "$" value "$" or "LOAD$" key "$"
encode(r) ==
    IF r.type = "Store" THEN STORE \o r.key \o <<36>> \o r.value \o <<36>>
    ELSE LOAD \o r.key \o <<36>>

Take(s, n) == SubSeq(s, 1, n)

Drop(s, n) == SubSeq(s, n + 1, Len(s))

IsPrefix(a, b) == Len(a) <= Len(b) /\ Take(b, Len(a)) = a

\* s is exactly one store request
ExactStore(s) ==
    /\ IsPrefix(STORE, s)
    /\ \E i \in 7..(Len(s) - 1) :
          /\ s[i] = 36 /\ s[Len(s)] = 36
          /\ IsLower(SubSeq(s, 7, i - 1))
          /\ IsLower(SubSeq(s, i + 1, Len(s) - 1))

\* s is exactly one load request
ExactLoad(s) ==
    /\ IsPrefix(LOAD, s)
    /\ Len(s) >= 6 /\ s[Len(s)] = 36
    /\ IsLower(SubSeq(s, 6, Len(s) - 1))

\* the buffer begins with a complete request
BeginsWithRequest(b) ==
    \E n \in 1..Len(b) : ExactStore(Take(b, n)) \/ ExactLoad(Take(b, n))

\* Every unfinished STORE request can be finished by a suffix of STORE$$$,
\* every unfinished LOAD request by a suffix of LOAD$$.
StoreCompletions == {Drop(STORE \o <<36, 36>>, n) : n \in 0..7}

LoadCompletions == {Drop(LOAD \o <<36>>, n) : n \in 0..5}

\* the buffer is a strict prefix of one request
UnfinishedRequest(b) ==
    /\ \/ \E s \in StoreCompletions : ExactStore(b \o s)
       \/ \E s \in LoadCompletions : ExactLoad(b \o s)
    /\ ~BeginsWithRequest(b)

(***************************************************************************)
(* State.                                                                  *)
(***************************************************************************)
VARIABLES
    pmsg,        \* SpecParser: the buffer handed to try_parse_request
    pres,        \* SpecParser: what try_parse_request returned on pmsg
    pextra,      \* SpecParser: bytes appended since pmsg stopped being unfinished
    sent,        \* per connection: the bytes the client has written, in order
    rpos,        \* per connection: how many of them the handler has read
    eof,         \* per connection: the client has closed its side
    cbuf,        \* per connection: the request the client is in the middle of
    garbage,     \* per connection: the client has sent a byte outside the grammar
    pc,          \* per connection: where the handler is suspended
    message,     \* per connection: the accumulation buffer
    cur,         \* per connection: the request in progress or the response to write
    out,         \* per connection: the bytes the socket accepted from the handler
    dispatched,  \* per connection: the requests sent to the store, in order
    resps,       \* per connection: the responses handed to socket.write, in order
    mailbox,     \* the request manager's channel: commands sent and not yet received
    mgr,         \* the request manager: its step and the command it handles
    reply,       \* per connection: the one-shot reply channel of its command
    files,       \* the database directory: the files key-<key> and their bytes
    handled,     \* the file operations the request manager has finished, in order
    faults,      \* I/O failures injected so far
    db,          \* the in-memory server: the map of keys to values
    lock,        \* the in-memory server: the connection holding the map's mutex, or 0
    hist         \* the in-memory server: the map operations done, in order

pvars == <<pmsg, pres, pextra>>

cvars == <<sent, eof, cbuf, garbage>>

hvars == <<rpos, pc, message, cur, out, dispatched, resps>>

avars == <<mailbox, mgr, reply, files, handled>>

mvars == <<db, lock, hist>>

vars == <<pmsg, pres, pextra, sent, rpos, eof, cbuf, garbage, pc, message, cur,
          out, dispatched, resps, mailbox, mgr, reply, files, handled, faults,
          db, lock, hist>>

Conns == {1, 2}

NoRequest == [type |-> "None"]

NoReply == [kind |-> "none"]

Response(bytes) == [type |-> "Response", bytes |-> bytes]

Closed == {"closed_eof", "closed_malformed", "closed_error", "closed_dropped"}

(***************************************************************************)
(* Bounds of the connection models.                                        *)
(***************************************************************************)
\* bytes one client writes when it writes byte by byte (SpecActor1, SpecMem1)
MaxStream == 14
\* I/O failures (errors and short writes) in one behaviour
MaxFaults == 1

(***************************************************************************)
(* The state after the listener accepted the connections: every handler    *)
(* is in its first socket read with an empty buffer; the request manager   *)
(* has created the database directory and waits for a command; the         *)
(* in-memory server's map is empty and unlocked.                           *)
(***************************************************************************)
ConnInit ==
    /\ sent = [c \in Conns |-> <<>>]
    /\ rpos = [c \in Conns |-> 0]
    /\ eof = [c \in Conns |-> FALSE]
    /\ cbuf = [c \in Conns |-> <<>>]
    /\ garbage = [c \in Conns |-> FALSE]
    /\ pc = [c \in Conns |-> "read"]
    /\ message = [c \in Conns |-> <<>>]
    /\ cur = [c \in Conns |-> NoRequest]
    /\ out = [c \in Conns |-> <<>>]
    /\ dispatched = [c \in Conns |-> <<>>]
    /\ resps = [c \in Conns |-> <<>>]
    /\ mailbox = <<>>
    /\ mgr = [step |-> "recv"]
    /\ reply = [c \in Conns |-> NoReply]
    /\ files = <<>>
    /\ handled = <<>>
    /\ faults = 0
    /\ db = <<>>
    /\ lock = 0
    /\ hist = <<>>

Init ==
    /\ pmsg = <<>>
    /\ pres = try_parse_request(<<>>)
    /\ pextra = 0
    /\ ConnInit

(***************************************************************************)
(* SpecParser: the parser applied to every buffer built byte by byte.      *)
(***************************************************************************)
\* one more byte arrives (`message.push(*byte as char)`) and the buffer is parsed
ParseAppended(b) ==
    /\ Len(pmsg) < MaxLen
    /\ UnfinishedRequest(pmsg) \/ pextra < MaxExtra
    /\ pmsg' = Append(pmsg, b)
    /\ pres' = try_parse_request(Append(pmsg, b))
    /\ pextra' = IF UnfinishedRequest(pmsg) THEN 0 ELSE pextra + 1
    /\ UNCHANGED <<cvars, hvars, avars, faults, mvars>>

ParserNext == \E b \in Alphabet : ParseAppended(b)

SpecParser == Init /\ [][ParserNext]_vars

(***************************************************************************)
(* The client and the transport.  A client writes bytes; the socket keeps  *)
(* them in order until the handler reads them, in chunks of any size.      *)
(***************************************************************************)
\* the bytes a client sends outside the grammar: "$", "1" and 0xE9
GarbageBytes == {36, 49, 233}

\* The client writes one byte: the next byte of a request or, once on a
\* connection, a byte outside the grammar, after which it starts a request
\* afresh (the handler never parses what follows such a byte).
ClientSend(c, b) ==
    /\ ~eof[c] /\ pc[c] \notin Closed
    /\ Len(sent[c]) < MaxStream
    /\ \/ /\ UnfinishedRequest(Append(cbuf[c], b))
          /\ cbuf' = [cbuf EXCEPT ![c] = Append(@, b)]
          /\ UNCHANGED garbage
       \/ /\ ExactStore(Append(cbuf[c], b)) \/ ExactLoad(Append(cbuf[c], b))
          /\ cbuf' = [cbuf EXCEPT ![c] = <<>>]
          /\ UNCHANGED garbage
       \/ /\ ~garbage[c] /\ b \in GarbageBytes
          /\ ~UnfinishedRequest(Append(cbuf[c], b))
          /\ ~(ExactStore(Append(cbuf[c], b)) \/ ExactLoad(Append(cbuf[c], b)))
          /\ cbuf' = [cbuf EXCEPT ![c] = <<>>]
          /\ garbage' = [garbage EXCEPT ![c] = TRUE]
    /\ sent' = [sent EXCEPT ![c] = Append(@, b)]
    /\ UNCHANGED <<eof, hvars, avars, faults, pvars, mvars>>

\* the client closes its side of the connection
ClientClose(c) ==
    /\ ~eof[c] /\ pc[c] \notin Closed
    /\ eof' = [eof EXCEPT ![c] = TRUE]
    /\ UNCHANGED <<sent, cbuf, garbage, hvars, avars, faults, pvars, mvars>>

\* the bytes written by the client and not yet read by the handler
Unread(c) == Drop(sent[c], rpos[c])

\* the bytes the handler has read so far
Received(c) == Take(sent[c], rpos[c])

(***************************************************************************)
(* src/src/lib.rs: the connection handler of the file-backed variant.      *)
(***************************************************************************)
\* static BUF_SIZE: usize = 1024
BUF_SIZE == 1024

Min(a, b) == IF a <= b THEN a ELSE b

\* str::as_bytes: the UTF-8 encoding of a String
RECURSIVE as_bytes(_)
as_bytes(s) ==
    IF s = <<>> THEN <<>>
    ELSE (IF Head(s) < 128 THEN <<Head(s)>>
          ELSE <<192 + (Head(s) \div 64), 128 + (Head(s) % 64)>>) \o as_bytes(Tail(s))

\* "DONE$".as_bytes()
DONE == <<68, 79, 78, 69, 36>>

\* "NOTFOUND$".as_bytes()
NOTFOUND == <<78, 79, 84, 70, 79, 85, 78, 68, 36>>

\* format!("FOUND${value}$").as_bytes()
FOUND(value) == as_bytes(<<70, 79, 85, 78, 68, 36>> \o value \o <<36>>)

\* a plausible slip: an incomplete buffer is treated like a malformed one's
\* opposite, the handler going back to read whatever the parser says
process_message_never_rejects(msg) ==
    LET p == try_parse_request(msg)
    IN  IF p.tag = "Some"
        THEN [pc |-> "send", message |-> p.message, cur |-> p.request]
        ELSE [pc |-> "read", message |-> p.message, cur |-> NoRequest]

\* a plausible slip: the buffer is cleared when no request is complete yet
process_message_drops_fragment(msg) ==
    LET p == try_parse_request(msg)
    IN  CASE p.tag = "Err" ->
               [pc |-> "closed_malformed", message |-> p.message, cur |-> NoRequest]
          [] p.tag = "None" ->
               [pc |-> "read", message |-> <<>>, cur |-> NoRequest]
          [] p.tag = "Some" ->
               [pc |-> "send", message |-> p.message, cur |-> p.request]

\* a plausible slip: the message is not replaced by what follows the request
process_message_keeps_request(msg) ==
    LET p == try_parse_request(msg)
    IN  CASE p.tag = "Err" ->
               [pc |-> "closed_malformed", message |-> p.message, cur |-> NoRequest]
          [] p.tag = "None" ->
               [pc |-> "read", message |-> p.message, cur |-> NoRequest]
          [] p.tag = "Some" ->
               [pc |-> "send", message |-> msg, cur |-> p.request]

\* process_message, from the top of its loop to the handler's next suspension:
\* Err returns Err (the handler returns), Ok(None) returns Ok (the handler
\* reads again), Ok(Some(request)) goes on to send the request's command.
process_message(msg) ==
    LET p == try_parse_request(msg)
    IN  CASE p.tag = "Err" ->
               [pc |-> "closed_malformed", message |-> p.message, cur |-> NoRequest]
          [] p.tag = "None" ->
               [pc |-> "read", message |-> p.message, cur |-> NoRequest]
          [] p.tag = "Some" ->
               [pc |-> "send", message |-> p.message, cur |-> p.request]

\* handle_connection: socket.read returns n > 0 bytes; they are pushed into
\* the message, which is then processed
handle_connection_read(c, n) ==
    /\ pc[c] = "read"
    /\ n \in 1..Min(Len(Unread(c)), BUF_SIZE)
    /\ LET next == process_message(message[c] \o Take(Unread(c), n))
       IN  /\ pc' = [pc EXCEPT ![c] = next.pc]
           /\ message' = [message EXCEPT ![c] = next.message]
           /\ cur' = [cur EXCEPT ![c] = next.cur]
    /\ rpos' = [rpos EXCEPT ![c] = @ + n]
    /\ UNCHANGED <<out, dispatched, resps, cvars, avars, faults, pvars, mvars>>

\* handle_connection: socket.read returns Ok(0), the peer has closed
handle_connection_eof(c) ==
    /\ pc[c] = "read"
    /\ eof[c] /\ Unread(c) = <<>>
    /\ pc' = [pc EXCEPT ![c] = "closed_eof"]
    /\ UNCHANGED <<rpos, message, cur, out, dispatched, resps, cvars, avars, faults, pvars, mvars>>

\* handle_connection: socket.read returns Err
handle_connection_read_err(c) ==
    /\ pc[c] = "read"
    /\ faults < MaxFaults
    /\ faults' = faults + 1
    /\ pc' = [pc EXCEPT ![c] = "closed_error"]
    /\ UNCHANGED <<rpos, message, cur, out, dispatched, resps, cvars, avars, pvars, mvars>>

\* the future of handle_connection is dropped while it waits for the reply of
\* the request manager: the socket and the receiver of the one-shot channel
\* are dropped with it
handle_connection_dropped(c) ==
    /\ pc[c] = "await"
    /\ pc' = [pc EXCEPT ![c] = "closed_dropped"]
    /\ UNCHANGED <<rpos, message, cur, out, dispatched, resps, cvars, avars, faults, pvars, mvars>>

MAILBOX_CAPACITY == 32

\* a plausible slip: the handler does not wait for the reply and parses the
\* next request as soon as the command is sent
process_request_send_no_await(c) ==
    /\ pc[c] = "send"
    /\ mgr.step # "gone"
    /\ Len(mailbox) < MAILBOX_CAPACITY
    /\ mailbox' = Append(mailbox, [conn |-> c, request |-> cur[c]])
    /\ dispatched' = [dispatched EXCEPT ![c] = Append(@, cur[c])]
    /\ LET next == process_message(message[c])
       IN  /\ pc' = [pc EXCEPT ![c] = next.pc]
           /\ message' = [message EXCEPT ![c] = next.message]
           /\ cur' = [cur EXCEPT ![c] = next.cur]
    /\ UNCHANGED <<rpos, out, resps, mgr, reply, files, handled,
                   cvars, faults, pvars, mvars>>

\* process_store_request / process_load_request: the command, with a fresh
\* one-shot channel, is sent to the request manager
process_request_send(c) ==
    /\ pc[c] = "send"
    /\ mgr.step # "gone"
    /\ Len(mailbox) < MAILBOX_CAPACITY
    /\ mailbox' = Append(mailbox, [conn |-> c, request |-> cur[c]])
    /\ dispatched' = [dispatched EXCEPT ![c] = Append(@, cur[c])]
    /\ pc' = [pc EXCEPT ![c] = "await"]
    /\ UNCHANGED <<rpos, message, cur, out, resps, mgr, reply, files, handled,
                   cvars, faults, pvars, mvars>>

\* process_store_request / process_load_request: request_sender.send fails,
\* the request manager's receiver being dropped; the handler returns
process_request_send_err(c) ==
    /\ pc[c] = "send"
    /\ mgr.step = "gone"
    /\ pc' = [pc EXCEPT ![c] = "closed_error"]
    /\ cur' = [cur EXCEPT ![c] = NoRequest]
    /\ UNCHANGED <<rpos, message, out, dispatched, resps, cvars, avars, faults, pvars, mvars>>

\* a plausible slip: a failed request is reported to the client as ERROR$
response_for_reports_error(request, r) ==
    IF request.type = "Store"
    THEN (IF r.kind = "ok_unit" THEN Response(DONE)
          ELSE Response(<<69, 82, 82, 79, 82, 36>>))
    ELSE (CASE r.kind = "ok_none" -> Response(NOTFOUND)
            [] r.kind = "ok_some" -> Response(FOUND(r.value))
            [] OTHER -> Response(<<69, 82, 82, 79, 82, 36>>))

\* a plausible slip: the branch of a missing key sends the done response
response_for_miss_is_done(request, r) ==
    IF request.type = "Store"
    THEN (IF r.kind = "ok_unit" THEN Response(DONE) ELSE NoRequest)
    ELSE (CASE r.kind = "ok_none" -> Response(DONE)
            [] r.kind = "ok_some" -> Response(FOUND(r.value))
            [] OTHER -> NoRequest)

\* what the handler does with the reply to `request`: the response it goes
\* on to write, or NoRequest when it returns Err(TaskError)
response_for(request, r) ==
    IF request.type = "Store"
    THEN (IF r.kind = "ok_unit" THEN Response(DONE) ELSE NoRequest)
    ELSE (CASE r.kind = "ok_none" -> Response(NOTFOUND)
            [] r.kind = "ok_some" -> Response(FOUND(r.value))
            [] OTHER -> NoRequest)

\* response_receiver.await completes
process_request_reply(c) ==
    /\ pc[c] = "await"
    /\ reply[c] # NoReply
    /\ LET resp == response_for(cur[c], reply[c])
       IN  /\ cur' = [cur EXCEPT ![c] = resp]
           /\ pc' = [pc EXCEPT ![c] = IF resp = NoRequest THEN "closed_error" ELSE "write"]
    /\ reply' = [reply EXCEPT ![c] = NoReply]
    /\ UNCHANGED <<rpos, message, out, dispatched, resps, mailbox, mgr, files, handled,
                   cvars, faults, pvars, mvars>>

\* send_*_response: socket.write accepts all the bytes; process_message loops
send_response(c) ==
    /\ pc[c] = "write"
    /\ out' = [out EXCEPT ![c] = @ \o cur[c].bytes]
    /\ resps' = [resps EXCEPT ![c] = Append(@, cur[c].bytes)]
    /\ LET next == process_message(message[c])
       IN  /\ pc' = [pc EXCEPT ![c] = next.pc]
           /\ message' = [message EXCEPT ![c] = next.message]
           /\ cur' = [cur EXCEPT ![c] = next.cur]
    /\ UNCHANGED <<rpos, dispatched, cvars, avars, faults, pvars, mvars>>

\* send_*_response: socket.write returns Ok(n) with n less than the length
\* offered; the result is Ok all the same and process_message loops
send_response_short(c, n) ==
    /\ pc[c] = "write"
    /\ faults < MaxFaults
    /\ n \in 1..(Len(cur[c].bytes) - 1)
    /\ faults' = faults + 1
    /\ out' = [out EXCEPT ![c] = @ \o Take(cur[c].bytes, n)]
    /\ resps' = [resps EXCEPT ![c] = Append(@, cur[c].bytes)]
    /\ LET next == process_message(message[c])
       IN  /\ pc' = [pc EXCEPT ![c] = next.pc]
           /\ message' = [message EXCEPT ![c] = next.message]
           /\ cur' = [cur EXCEPT ![c] = next.cur]
    /\ UNCHANGED <<rpos, dispatched, cvars, avars, pvars, mvars>>

\* send_*_response: socket.write returns Err
send_response_err(c) ==
    /\ pc[c] = "write"
    /\ faults < MaxFaults
    /\ faults' = faults + 1
    /\ pc' = [pc EXCEPT ![c] = "closed_error"]
    /\ cur' = [cur EXCEPT ![c] = NoRequest]
    /\ UNCHANGED <<rpos, message, out, dispatched, resps, cvars, avars, pvars, mvars>>

(***************************************************************************)
(* src/src/lib.rs: the request manager.                                    *)
(***************************************************************************)
HasFile(key) == \E i \in DOMAIN files : files[i].key = key

FileOf(key) == (CHOOSE i \in DOMAIN files : files[i].key = key)

Content(key) == files[FileOf(key)].bytes

\* the directory with file key-<key> holding exactly `bytes`
WriteFile(key, bytes) ==
    IF HasFile(key)
    THEN [files EXCEPT ![FileOf(key)] = [key |-> key, bytes |-> bytes]]
    ELSE Append(files, [key |-> key, bytes |-> bytes])

\* a plausible slip: the newest command is taken first
run_request_manager_takes_last(dummy) ==
    /\ mgr.step = "recv"
    /\ mailbox # <<>>
    /\ mgr' = [step |-> IF mailbox[Len(mailbox)].request.type = "Store"
                        THEN "create" ELSE "open",
               conn |-> mailbox[Len(mailbox)].conn,
               request |-> mailbox[Len(mailbox)].request]
    /\ mailbox' = SubSeq(mailbox, 1, Len(mailbox) - 1)
    /\ UNCHANGED <<reply, files, handled, hvars, cvars, faults, pvars, mvars>>

\* run_request_manager: request_receiver.recv() yields the oldest command
run_request_manager(dummy) ==
    /\ mgr.step = "recv"
    /\ mailbox # <<>>
    /\ mgr' = [step |-> IF Head(mailbox).request.type = "Store" THEN "create" ELSE "open",
               conn |-> Head(mailbox).conn,
               request |-> Head(mailbox).request]
    /\ mailbox' = Tail(mailbox)
    /\ UNCHANGED <<reply, files, handled, hvars, cvars, faults, pvars, mvars>>

\* run_request_manager: create_dir_all fails and unwrap panics before the
\* first recv; the task ends, its receiver is dropped and with it the commands
\* already queued, whose reply channels are thereby closed
run_request_manager_create_dir_all_err(dummy) ==
    /\ mgr.step = "recv"
    /\ handled = <<>>
    /\ faults < MaxFaults
    /\ faults' = faults + 1
    /\ mgr' = [step |-> "gone"]
    /\ mailbox' = <<>>
    /\ reply' = [c \in Conns |->
                   IF \E i \in DOMAIN mailbox : mailbox[i].conn = c
                   THEN [kind |-> "dropped"] ELSE reply[c]]
    /\ UNCHANGED <<files, handled, hvars, cvars, pvars, mvars>>

\* a plausible slip: responder.send(..).unwrap(), which panics when the
\* handler that waits for the reply is gone and so ends the request manager
Finish_unwrap(r) ==
    /\ reply' = IF pc[mgr.conn] = "await" THEN [reply EXCEPT ![mgr.conn] = r] ELSE reply
    /\ handled' = Append(handled, [conn |-> mgr.conn, request |-> mgr.request, reply |-> r])
    /\ mgr' = [step |-> IF pc[mgr.conn] = "await" THEN "recv" ELSE "gone"]

\* the request manager is done with its command: the reply r goes to the
\* command's one-shot channel and the loop goes back to recv; when the
\* receiver has been dropped responder.send returns Err, which
\* unwrap_or(()) discards
Finish(r) ==
    /\ reply' = IF pc[mgr.conn] = "await" THEN [reply EXCEPT ![mgr.conn] = r] ELSE reply
    /\ handled' = Append(handled, [conn |-> mgr.conn, request |-> mgr.request, reply |-> r])
    /\ mgr' = [step |-> "recv"]

\* handle_store: File::create creates the file or truncates it
handle_store_create(dummy) ==
    /\ mgr.step = "create"
    /\ files' = WriteFile(mgr.request.key, <<>>)
    /\ mgr' = [mgr EXCEPT !.step = "write_all"]
    /\ UNCHANGED <<mailbox, reply, handled, hvars, cvars, faults, pvars, mvars>>

\* handle_store: File::create fails; the reply is Err
handle_store_create_err(dummy) ==
    /\ mgr.step = "create"
    /\ faults < MaxFaults
    /\ faults' = faults + 1
    /\ Finish([kind |-> "err"])
    /\ UNCHANGED <<mailbox, files, hvars, cvars, pvars, mvars>>

\* handle_store: write_all writes the value; the reply is Ok(())
handle_store_write_all(dummy) ==
    /\ mgr.step = "write_all"
    /\ files' = WriteFile(mgr.request.key, as_bytes(mgr.request.value))
    /\ Finish([kind |-> "ok_unit"])
    /\ UNCHANGED <<mailbox, hvars, cvars, faults, pvars, mvars>>

\* handle_store: write_all fails after writing n bytes of the value, fewer
\* than all of them; the reply is Err
handle_store_write_all_err(n) ==
    /\ mgr.step = "write_all"
    /\ faults < MaxFaults
    /\ n \in 0..(Len(as_bytes(mgr.request.value)) - 1)
    /\ faults' = faults + 1
    /\ files' = WriteFile(mgr.request.key, Take(as_bytes(mgr.request.value), n))
    /\ Finish([kind |-> "err"])
    /\ UNCHANGED <<mailbox, hvars, cvars, pvars, mvars>>

\* handle_load: File::open succeeds
handle_load_open(dummy) ==
    /\ mgr.step = "open"
    /\ HasFile(mgr.request.key)
    /\ mgr' = [mgr EXCEPT !.step = "read_to_end"]
    /\ UNCHANGED <<mailbox, reply, files, handled, hvars, cvars, faults, pvars, mvars>>

\* handle_load: File::open fails because there is no such file; the reply
\* is Ok(None)
handle_load_open_absent(dummy) ==
    /\ mgr.step = "open"
    /\ ~HasFile(mgr.request.key)
    /\ Finish([kind |-> "ok_none"])
    /\ UNCHANGED <<mailbox, files, hvars, cvars, faults, pvars, mvars>>

\* handle_load: File::open fails for another reason; the reply is Ok(None) too
handle_load_open_err(dummy) ==
    /\ mgr.step = "open"
    /\ faults < MaxFaults
    /\ faults' = faults + 1
    /\ Finish([kind |-> "ok_none"])
    /\ UNCHANGED <<mailbox, files, hvars, cvars, pvars, mvars>>

\* handle_load: read_to_end reads the file; each byte is pushed as a char and
\* the reply is Ok(Some(value))
handle_load_read_to_end(dummy) ==
    /\ mgr.step = "read_to_end"
    /\ Finish([kind |-> "ok_some", value |-> Content(mgr.request.key)])
    /\ UNCHANGED <<mailbox, files, hvars, cvars, faults, pvars, mvars>>

\* handle_load: read_to_end fails; the reply is Err
handle_load_read_to_end_err(dummy) ==
    /\ mgr.step = "read_to_end"
    /\ faults < MaxFaults
    /\ faults' = faults + 1
    /\ Finish([kind |-> "err"])
    /\ UNCHANGED <<mailbox, files, hvars, cvars, pvars, mvars>>

\* the steps of the request manager when no file operation fails
RequestManager ==
    \/ run_request_manager(0)
    \/ handle_store_create(0)
    \/ handle_store_write_all(0)
    \/ handle_load_open(0)
    \/ handle_load_open_absent(0)
    \/ handle_load_read_to_end(0)

\* the steps of the request manager when a file operation fails
RequestManagerFault ==
    \/ handle_store_create_err(0)
    \/ \E n \in 0..1 : handle_store_write_all_err(n)
    \/ handle_load_open_err(0)
    \/ handle_load_read_to_end_err(0)

\* the steps of the handler of connection c between two socket reads
ActorHandler(c) ==
    \/ process_request_send(c)
    \/ process_request_reply(c)
    \/ send_response(c)

\* the steps of the handler of connection c when the socket fails it
ActorHandlerFault(c) ==
    \/ handle_connection_read_err(c)
    \/ \E n \in 1..2 : send_response_short(c, n)
    \/ send_response_err(c)

(***************************************************************************)
(* SpecActor1: one connection of the file-backed variant; the client       *)
(* writes byte by byte and the socket delivers chunks of every size.       *)
(***************************************************************************)
Actor1Next ==
    \/ \E b \in Alphabet : ClientSend(1, b)
    \/ \E n \in 1..MaxStream : handle_connection_read(1, n)
    \/ ActorHandler(1)
    \/ RequestManager

SpecActor1 == Init /\ [][Actor1Next]_vars

(***************************************************************************)
(* SpecActor2: two connections of the file-backed variant.  Each client    *)
(* writes whole requests; every read takes all the bytes that wait in the  *)
(* socket; the request manager's file operations may fail.                 *)
(***************************************************************************)
\* bytes one client writes when it writes whole requests: up to two requests
MaxSent == 18

\* STORE$$a$, STORE$$aa$ and LOAD$$
ClientRequests ==
    {StoreRequest(<<>>, <<97>>), StoreRequest(<<>>, <<97, 97>>), LoadRequest(<<>>)}

\* the client writes one whole request
ClientSendRequest(c, r) ==
    /\ ~eof[c] /\ pc[c] \notin Closed
    /\ Len(sent[c]) + Len(encode(r)) <= MaxSent
    /\ sent' = [sent EXCEPT ![c] = @ \o encode(r)]
    /\ UNCHANGED <<eof, cbuf, garbage, hvars, avars, faults, pvars, mvars>>

Actor2Next ==
    \/ \E c \in Conns :
          \/ \E r \in ClientRequests : ClientSendRequest(c, r)
          \/ handle_connection_read(c, Len(Unread(c)))
          \/ ActorHandler(c)
    \/ RequestManager
    \/ RequestManagerFault

SpecActor2 == Init /\ [][Actor2Next]_vars

(***************************************************************************)
(* src/src/main.rs: the in-memory server.  Each connection has a handler   *)
(* task; the map is shared behind a mutex.                                 *)
(***************************************************************************)
\* const MAX_MESSAGE_LENGTH: usize = 10000
MAX_MESSAGE_LENGTH == 10000

\* Regex ^STORE\$[a-z]*\$[a-z]*\$ matches the request
main_is_store_request(request) == is_match(RE_STORE_REQUEST, request)

\* Regex ^LOAD\$[a-z]*\$ matches the request
main_is_load_request(request) == is_match(RE_LOAD_REQUEST, request)

\* (key, value, rest)
main_split_store_request(request) ==
    LET dollars == match_indices(request)
    IN  << SubSeq(request, dollars[1] + 1, dollars[2] - 1),
           SubSeq(request, dollars[2] + 1, dollars[3] - 1),
           SubSeq(request, dollars[3] + 1, Len(request)) >>

\* (key, rest)
main_split_load_request(request) ==
    LET dollars == match_indices(request)
    IN  << SubSeq(request, dollars[1] + 1, dollars[2] - 1),
           SubSeq(request, dollars[2] + 1, Len(request)) >>

\* a plausible slip: the empty string stands for a missing key
NOT_FOUND_VALUE_empty == <<>>

\* "not_found", the value process_load_request starts from
NOT_FOUND_VALUE == <<110, 111, 116, 95, 102, 111, 117, 110, 100>>

\* a plausible slip: insertion keeps the value of a key already present
db_insert_keeps_old(map, key, value) ==
    [k \in DOMAIN map \cup {key} |-> IF k \in DOMAIN map THEN map[k] ELSE value]

\* HashMap::insert
db_insert(map, key, value) ==
    [k \in DOMAIN map \cup {key} |-> IF k = key THEN value ELSE map[k]]

\* process_load_request: the value after the look-up
db_get(map, key) == IF key \in DOMAIN map THEN map[key] ELSE NOT_FOUND_VALUE

\* process_request, its end: the length test
main_process_request_end(request) ==
    [pc |-> IF StrLen(request) > MAX_MESSAGE_LENGTH THEN "closed_error" ELSE "read",
     message |-> request, cur |-> NoRequest]

\* process_request from its second test: a LOAD request at the head of the
\* buffer is split off and processed
main_process_request_load(request) ==
    IF main_is_load_request(request)
    THEN LET s == main_split_load_request(request)
         IN  [pc |-> "load_lock", message |-> s[2], cur |-> LoadRequest(s[1])]
    ELSE main_process_request_end(request)

\* process_request from its top: a STORE request at the head of the buffer is
\* split off and processed
main_process_request(request) ==
    IF main_is_store_request(request)
    THEN LET s == main_split_store_request(request)
         IN  [pc |-> "store_lock", message |-> s[3], cur |-> StoreRequest(s[1], s[2])]
    ELSE main_process_request_load(request)

\* the handler of connection c goes on as n says
MainGoto(c, n) ==
    /\ pc' = [pc EXCEPT ![c] = n.pc]
    /\ message' = [message EXCEPT ![c] = n.message]
    /\ cur' = [cur EXCEPT ![c] = n.cur]
    /\ dispatched' = [dispatched EXCEPT ![c] =
                         IF n.cur = NoRequest THEN @ ELSE Append(@, n.cur)]

\* handle_connection: socket.read returns Ok(n), n = 0 when the peer has
\* closed; the bytes are pushed into the request and process_request is called
main_handle_connection_read(c, n) ==
    /\ pc[c] = "read"
    /\ n \in 0..Min(Len(Unread(c)), MAX_MESSAGE_LENGTH)
    /\ n = 0 => eof[c] /\ Unread(c) = <<>>
    /\ MainGoto(c, main_process_request(message[c] \o Take(Unread(c), n)))
    /\ rpos' = [rpos EXCEPT ![c] = @ + n]
    /\ UNCHANGED <<out, resps, cvars, avars, faults, pvars, mvars>>

\* handle_connection: socket.read returns Err
main_handle_connection_read_err(c) ==
    /\ pc[c] = "read"
    /\ faults < MaxFaults
    /\ faults' = faults + 1
    /\ pc' = [pc EXCEPT ![c] = "closed_error"]
    /\ UNCHANGED <<rpos, message, cur, out, dispatched, resps, cvars, avars, pvars, mvars>>

\* process_store_request / process_load_request: data.db.lock() returns the guard
main_db_lock(c) ==
    /\ pc[c] \in {"store_lock", "load_lock"}
    /\ lock = 0
    /\ lock' = c
    /\ pc' = [pc EXCEPT ![c] = IF @ = "store_lock" THEN "insert" ELSE "get"]
    /\ UNCHANGED <<rpos, message, cur, out, dispatched, resps, db, hist,
                   cvars, avars, faults, pvars>>

\* a plausible slip: the guard is bound to a variable that lives to the end of
\* process_store_request, so the lock is still held while DONE$ is written
main_process_store_request_insert_keeps_lock(c) ==
    /\ pc[c] = "insert"
    /\ db' = db_insert(db, cur[c].key, cur[c].value)
    /\ hist' = Append(hist, [op |-> "put", conn |-> c, key |-> cur[c].key,
                             value |-> cur[c].value])
    /\ lock' = lock
    /\ cur' = [cur EXCEPT ![c] = Response(DONE)]
    /\ pc' = [pc EXCEPT ![c] = "store_write"]
    /\ UNCHANGED <<rpos, message, out, dispatched, resps, cvars, avars, faults, pvars>>

\* process_store_request: db.insert(key, value); the guard is dropped
main_process_store_request_insert(c) ==
    /\ pc[c] = "insert"
    /\ db' = db_insert(db, cur[c].key, cur[c].value)
    /\ hist' = Append(hist, [op |-> "put", conn |-> c, key |-> cur[c].key,
                             value |-> cur[c].value])
    /\ lock' = 0
    /\ cur' = [cur EXCEPT ![c] = Response(DONE)]
    /\ pc' = [pc EXCEPT ![c] = "store_write"]
    /\ UNCHANGED <<rpos, message, out, dispatched, resps, cvars, avars, faults, pvars>>

\* process_load_request: db.get(&key); the guard is dropped; the response is
\* chosen by comparing the value with "not_found"
main_process_load_request_get(c) ==
    /\ pc[c] = "get"
    /\ LET value == db_get(db, cur[c].key)
       IN  /\ hist' = Append(hist, [op |-> "get", conn |-> c, key |-> cur[c].key,
                                    value |-> value])
           /\ cur' = [cur EXCEPT ![c] = IF value = NOT_FOUND_VALUE
                                         THEN Response(NOTFOUND)
                                         ELSE Response(FOUND(value))]
    /\ lock' = 0
    /\ pc' = [pc EXCEPT ![c] = "load_write"]
    /\ UNCHANGED <<rpos, message, out, dispatched, resps, db, cvars, avars, faults, pvars>>

\* what process_request does once the response of connection c is written
MainAfterWrite(c) ==
    IF pc[c] = "store_write" THEN main_process_request_load(message[c])
    ELSE main_process_request_end(message[c])

\* send_*_response: socket.write accepts all the bytes
main_send_response(c) ==
    /\ pc[c] \in {"store_write", "load_write"}
    /\ out' = [out EXCEPT ![c] = @ \o cur[c].bytes]
    /\ resps' = [resps EXCEPT ![c] = Append(@, cur[c].bytes)]
    /\ MainGoto(c, MainAfterWrite(c))
    /\ UNCHANGED <<rpos, cvars, avars, faults, pvars, mvars>>

\* send_*_response: socket.write returns Ok(n) with n less than the length
\* offered; the result is Ok all the same
main_send_response_short(c, n) ==
    /\ pc[c] \in {"store_write", "load_write"}
    /\ faults < MaxFaults
    /\ n \in 1..(Len(cur[c].bytes) - 1)
    /\ faults' = faults + 1
    /\ out' = [out EXCEPT ![c] = @ \o Take(cur[c].bytes, n)]
    /\ resps' = [resps EXCEPT ![c] = Append(@, cur[c].bytes)]
    /\ MainGoto(c, MainAfterWrite(c))
    /\ UNCHANGED <<rpos, cvars, avars, pvars, mvars>>

\* send_*_response: socket.write returns Err
main_send_response_err(c) ==
    /\ pc[c] \in {"store_write", "load_write"}
    /\ faults < MaxFaults
    /\ faults' = faults + 1
    /\ pc' = [pc EXCEPT ![c] = "closed_error"]
    /\ cur' = [cur EXCEPT ![c] = NoRequest]
    /\ UNCHANGED <<rpos, message, out, dispatched, resps, cvars, avars, pvars, mvars>>

\* the steps of a handler of the in-memory server when no socket call fails
MainHandler(c) ==
    \/ main_db_lock(c)
    \/ main_process_store_request_insert(c)
    \/ main_process_load_request_get(c)
    \/ main_send_response(c)

(***************************************************************************)
(* SpecMem1: one connection of the in-memory server; the client writes     *)
(* byte by byte and the socket delivers chunks of every size.              *)
(***************************************************************************)
Mem1Next ==
    \/ \E b \in Alphabet : ClientSend(1, b)
    \/ \E n \in 1..MaxStream : main_handle_connection_read(1, n)
    \/ MainHandler(1)

SpecMem1 == Init /\ [][Mem1Next]_vars

(***************************************************************************)
(* SpecMem2: two connections of the in-memory server.  Each client writes  *)
(* whole requests; every read takes all the bytes that wait in the socket. *)
(***************************************************************************)
\* STORE$$a$, STORE$$b$, STORE$$$ (the empty value) and LOAD$$
MemRequests ==
    {StoreRequest(<<>>, <<97>>), StoreRequest(<<>>, <<98>>), StoreRequest(<<>>, <<>>),
     LoadRequest(<<>>)}

Mem2Next ==
    \E c \in Conns :
        \/ \E r \in MemRequests : ClientSendRequest(c, r)
        \/ main_handle_connection_read(c, Len(Unread(c)))
        \/ MainHandler(c)

SpecMem2 == Init /\ [][Mem2Next]_vars

(***************************************************************************)
(* SpecActor3: one connection of the file-backed variant where things      *)
(* fail: the request manager may die at its start, its file operations,    *)
(* the socket reads and the socket writes may return errors.  The client   *)
(* writes whole requests and the socket delivers chunks of every size.     *)
(***************************************************************************)
Actor3Next ==
    \/ \E r \in ClientRequests : ClientSendRequest(1, r)
    \/ \E n \in 1..MaxSent : handle_connection_read(1, n)
    \/ handle_connection_read_err(1)
    \/ ActorHandler(1)
    \/ process_request_send_err(1)
    \/ send_response_err(1)
    \/ RequestManager
    \/ RequestManagerFault
    \/ run_request_manager_create_dir_all_err(0)

SpecActor3 == Init /\ [][Actor3Next]_vars

(***************************************************************************)
(* SpecBoth: one client transcript served by both servers.  Connection 1   *)
(* is a connection of the file-backed variant, connection 2 one of the     *)
(* in-memory server; the client writes the same bytes to both, and every   *)
(* read takes all the bytes that wait, so both handlers get the same       *)
(* chunks.  The two servers share nothing, so the in-memory handler is     *)
(* let to read a chunk once the other server is done with it.  No I/O      *)
(* call fails.                                                             *)
(***************************************************************************)
\* the handler of connection c has returned, or waits in a read with nothing
\* left to read
Quiet(c) == pc[c] \in Closed \/ (pc[c] = "read" /\ Unread(c) = <<>>)

\* The client writes one byte on both connections.  It does so only when
\* every handler that still runs waits in a read and none is behind the
\* other, so that the bytes between two reads of one handler are also a
\* chunk of the other.
ClientSendBoth(b) ==
    /\ Len(sent[1]) < MaxStream
    /\ \A c \in Conns :
          \/ pc[c] \in Closed
          \/ pc[c] = "read" /\ \A d \in Conns : rpos[d] <= rpos[c]
    /\ \E c \in Conns : pc[c] \notin Closed
    /\ \/ /\ UnfinishedRequest(Append(cbuf[1], b))
          /\ cbuf' = [c \in Conns |-> Append(cbuf[1], b)]
          /\ UNCHANGED garbage
       \/ /\ ExactStore(Append(cbuf[1], b)) \/ ExactLoad(Append(cbuf[1], b))
          /\ cbuf' = [c \in Conns |-> <<>>]
          /\ UNCHANGED garbage
       \/ /\ ~garbage[1] /\ b \in GarbageBytes
          /\ ~UnfinishedRequest(Append(cbuf[1], b))
          /\ ~(ExactStore(Append(cbuf[1], b)) \/ ExactLoad(Append(cbuf[1], b)))
          /\ cbuf' = [c \in Conns |-> <<>>]
          /\ garbage' = [c \in Conns |-> TRUE]
    /\ sent' = [c \in Conns |-> Append(sent[1], b)]
    /\ UNCHANGED <<eof, hvars, avars, faults, pvars, mvars>>

BothNext ==
    \/ \E b \in Alphabet : ClientSendBoth(b)
    \/ handle_connection_read(1, Len(Unread(1)))
    \/ ActorHandler(1)
    \/ RequestManager
    \/ Quiet(1) /\ main_handle_connection_read(2, Len(Unread(2)))
    \/ MainHandler(2)

SpecBoth == Init /\ [][BothNext]_vars

(***************************************************************************)
(* SpecEof: connection 1 is served by the actor server and connection 2 by *)
(* the in-memory server.  Each client writes whole requests and may close  *)
(* its connection; the socket reads may fail.  A handler that can take a   *)
(* step eventually takes one, and so does the request manager: both        *)
(* servers run their tasks on the tokio scheduler, which keeps polling a   *)
(* task that is ready.                                                     *)
(***************************************************************************)
\* bytes one client writes before it closes the connection
MaxEofSent == 15

EofClientSendRequest(c, r) ==
    /\ Len(sent[c]) + Len(encode(r)) <= MaxEofSent
    /\ ClientSendRequest(c, r)

EofActorStep ==
    \/ handle_connection_read(1, Len(Unread(1)))
    \/ handle_connection_eof(1)
    \/ ActorHandler(1)

EofMainStep ==
    \/ main_handle_connection_read(2, Len(Unread(2)))
    \/ MainHandler(2)

EofNext ==
    \/ \E c \in Conns, r \in ClientRequests : EofClientSendRequest(c, r)
    \/ \E c \in Conns : ClientClose(c)
    \/ EofActorStep
    \/ handle_connection_read_err(1)
    \/ RequestManager
    \/ EofMainStep
    \/ main_handle_connection_read_err(2)

SpecEof ==
    /\ Init
    /\ [][EofNext]_vars
    /\ WF_vars(EofActorStep)
    /\ WF_vars(RequestManager)
    /\ WF_vars(EofMainStep)

(***************************************************************************)
(* SpecCap: one connection of the in-memory server whose client sends only *)
(* correct requests and pipelines them: it starts with a burst, STORE$$a$  *)
(* and then LOAD$$ requests that fill the buffer to MAX_MESSAGE_LENGTH,    *)
(* and goes on with single requests.  A read takes what waits in the       *)
(* socket, at most the MAX_MESSAGE_LENGTH bytes of buf, or only the first  *)
(* half of it.                                                             *)
(***************************************************************************)
\* the LOAD$$ requests of the burst: as many as fit in MAX_MESSAGE_LENGTH bytes
BurstLen == MAX_MESSAGE_LENGTH \div Len(encode(LoadRequest(<<>>)))

Burst ==
    encode(StoreRequest(<<>>, <<97>>)) \o
    [i \in 1..(BurstLen * Len(encode(LoadRequest(<<>>)))) |->
        encode(LoadRequest(<<>>))[((i - 1) % Len(encode(LoadRequest(<<>>)))) + 1]]

ClientSendBurst(c) ==
    /\ ~eof[c] /\ pc[c] \notin Closed
    /\ sent[c] = <<>>
    /\ sent' = [sent EXCEPT ![c] = Burst]
    /\ UNCHANGED <<eof, cbuf, garbage, hvars, avars, faults, pvars, mvars>>

ClientSendAfterBurst(c, r) ==
    /\ ~eof[c] /\ pc[c] \notin Closed
    /\ sent[c] # <<>>
    /\ Len(sent[c]) + Len(encode(r)) <= Len(Burst) + MaxSent
    /\ sent' = [sent EXCEPT ![c] = @ \o encode(r)]
    /\ UNCHANGED <<eof, cbuf, garbage, hvars, avars, faults, pvars, mvars>>

CapNext ==
    \/ ClientSendBurst(1)
    \/ \E r \in ClientRequests : ClientSendAfterBurst(1, r)
    \/ main_handle_connection_read(1, Min(Len(Unread(1)), MAX_MESSAGE_LENGTH))
    \/ main_handle_connection_read(1, (Len(Unread(1)) + 1) \div 2)
    \/ MainHandler(1)

SpecCap == Init /\ [][CapNext]_vars

(***************************************************************************)
(* SpecDrop: two connections of the file-backed variant whose handlers may *)
(* be dropped while they wait for the request manager.  Each client writes *)
(* whole requests; every read takes all the bytes that wait in the socket. *)
(* The request manager is a task of its own that the scheduler keeps       *)
(* polling, and so is a handler whose reply has arrived.                   *)
(***************************************************************************)
DropNext ==
    \/ \E c \in Conns :
          \/ \E r \in ClientRequests : EofClientSendRequest(c, r)
          \/ handle_connection_read(c, Len(Unread(c)))
          \/ ActorHandler(c)
          \/ handle_connection_dropped(c)
    \/ RequestManager

SpecDrop ==
    /\ Init
    /\ [][DropNext]_vars
    /\ WF_vars(RequestManager)
    /\ \A c \in Conns : WF_vars(process_request_reply(c))

(***************************************************************************)
(* SpecShort: connection 1 is served by the actor server and connection 2  *)
(* by the in-memory server.  Each client writes whole requests; every read *)
(* takes all the bytes that wait in the socket.  A socket.write may accept *)
(* fewer bytes than it is offered, or fail.                                *)
(***************************************************************************)
ShortNext ==
    \/ \E c \in Conns, r \in ClientRequests : EofClientSendRequest(c, r)
    \/ handle_connection_read(1, Len(Unread(1)))
    \/ ActorHandler(1)
    \/ \E n \in 1..MaxSent : send_response_short(1, n)
    \/ send_response_err(1)
    \/ RequestManager
    \/ main_handle_connection_read(2, Len(Unread(2)))
    \/ MainHandler(2)
    \/ \E n \in 1..MaxSent : main_send_response_short(2, n)
    \/ main_send_response_err(2)

SpecShort == Init /\ [][ShortNext]_vars

(***************************************************************************)
(* Claims about the parser, checked under SpecParser.                      *)
(***************************************************************************)
LowerBytes == {b \in Alphabet : b \in 97..122}

\* the keys and values of at most n letters
Words(n) == UNION {[1..k -> LowerBytes] : k \in 0..n}

\* the requests whose encoding fits a buffer of the model
Requests ==
    {StoreRequest(k, v) : k \in Words(MaxLen - 8), v \in Words(MaxLen - 8)}
      \cup {LoadRequest(k) : k \in Words(MaxLen - 6)}

\* C8: round trip.  Whenever the buffer is encode(r) followed by any rest,
\* try_parse_request returns Some(r) with r's key and value and leaves the
\* message equal to rest.
C8_RoundTrip ==
    \A r \in Requests :
        IsPrefix(encode(r), pmsg) =>
            /\ pres.tag = "Some"
            /\ pres.request = r
            /\ pres.message = Drop(pmsg, Len(encode(r)))

C8_Witness ==
    /\ pres.tag = "Some"
    /\ pres.request = StoreRequest(<<97>>, <<97>>)
    /\ pres.message = <<36>>
    /\ pmsg = encode(StoreRequest(<<97>>, <<97>>)) \o <<36>>

\* C9: classification.  try_parse_request returns Ok(None), leaving the
\* message unchanged, exactly when the buffer does not begin with a complete
\* request and is a strict prefix of one; Err exactly when it is neither;
\* Some exactly when it begins with a complete request.
C9_Classification ==
    /\ pres.tag \in {"Some", "None", "Err"}
    /\ pres.tag = "Some" <=> BeginsWithRequest(pmsg)
    /\ pres.tag = "None" <=> UnfinishedRequest(pmsg)
    /\ pres.tag = "Err" <=> ~BeginsWithRequest(pmsg) /\ ~UnfinishedRequest(pmsg)
    /\ pres.tag = "None" => pres.message = pmsg

\* the buffer STORE$$ is classified incomplete
C9_Witness ==
    /\ pmsg = STORE \o <<36>>
    /\ pres.tag = "None"
    /\ pres.message = pmsg

\* C10: dead-end stability.  Once a buffer is classified Err, it stays Err
\* whatever byte is appended.
C10_DeadEndStable == [][pres.tag = "Err" => pres'.tag = "Err"]_vars

\* a byte was appended to a buffer that was already Err
C10_Witness ==
    /\ Len(pmsg) >= 2
    /\ pextra >= 1
    /\ pres.tag = "Err"
    /\ try_parse_request(Take(pmsg, Len(pmsg) - 1)).tag = "Err"

\* C11: splitting.  For every request r and every split of encode(r) into a
\* and a non-empty b, try_parse_request classifies a as incomplete: whenever
\* the buffer is a strict prefix of a request's encoding (the empty buffer
\* included), the result is Ok(None).
C11_Splitting ==
    \A r \in Requests :
        \A n \in 0..(Len(encode(r)) - 1) :
            pmsg = Take(encode(r), n) => pres.tag = "None"

\* the buffer is LOAD$a, the request LOAD$a$ short of its terminator
C11_Witness ==
    /\ pmsg = LOAD \o <<97>>
    /\ pres.tag = "None"

\* a byte that is neither a lowercase letter nor the terminator
BadByte(b) == b \notin 97..122 /\ b # 36

\* the buffer begins with STORE$ and has a bad byte in the key or value
OffendingStore(m) ==
    /\ IsPrefix(STORE, m)
    /\ \E i \in 7..Len(m) :
          /\ BadByte(m[i])
          /\ Cardinality({j \in 7..(i - 1) : m[j] = 36}) < 2

\* the buffer begins with LOAD$ and has a bad byte in the key
OffendingLoad(m) ==
    /\ IsPrefix(LOAD, m)
    /\ \E i \in 6..Len(m) :
          /\ BadByte(m[i])
          /\ \A j \in 6..(i - 1) : m[j] # 36

\* the buffer neither is a prefix of STORE$ or LOAD$ nor begins with one
NoLiteralPrefix(m) ==
    \A lit \in {STORE, LOAD} : ~IsPrefix(m, lit) /\ ~IsPrefix(lit, m)

\* C12: the alphabet of keys and values.  A buffer whose first request has a
\* byte other than a to z or "$" in its key or value, before the request's
\* last terminator, is classified Err, from the moment the byte is the last
\* of the buffer; so is a buffer that does not start as STORE$ or LOAD$.
C12_AlphabetEnforced ==
    (OffendingStore(pmsg) \/ OffendingLoad(pmsg) \/ NoLiteralPrefix(pmsg)) =>
        pres.tag = "Err"

\* the byte 0xE9 has just come in the value of STORE$a$
C12_Witness ==
    /\ pmsg = STORE \o <<97, 36, 233>>
    /\ OffendingStore(pmsg)
    /\ pres.tag = "Err"

(***************************************************************************)
(* Claims about one connection of the file-backed variant, checked under   *)
(* SpecActor1.                                                             *)
(***************************************************************************)
\* The bytes of a stream parsed in one piece: the requests it begins with, the
\* unconsumed rest and the parser's verdict on that rest.
RECURSIVE ParseAll(_)
ParseAll(stream) ==
    LET p == try_parse_request(stream)
    IN  IF p.tag = "Some"
        THEN LET more == ParseAll(p.message)
             IN  [requests |-> <<p.request>> \o more.requests,
                  rest |-> more.rest, tag |-> more.tag]
        ELSE [requests |-> <<>>, rest |-> stream, tag |-> p.tag]

\* C1: the requests dispatched and the responses written depend on the
\* concatenation of the bytes read, not on the chunks they came in.  At every
\* moment the requests dispatched are the first requests of the bytes read so
\* far, no request has more than one response, and whenever the handler waits
\* in a read it has dispatched and answered exactly the complete requests of
\* the concatenation and holds exactly its unconsumed rest; so a request
\* that came in fragments is answered once, after its last fragment.
C1_ChunkingIrrelevant ==
    LET ref == ParseAll(Received(1))
    IN  /\ IsPrefix(dispatched[1], ref.requests)
        /\ Len(resps[1]) <= Len(dispatched[1])
        /\ pc[1] = "read" =>
              /\ dispatched[1] = ref.requests
              /\ Len(resps[1]) = Len(ref.requests)
              /\ message[1] = ref.rest

\* One request has been answered and the first seven bytes of the next one,
\* STORE$$, are in the buffer: its last byte has yet to come in a later read,
\* and no response to it has been written.
C1_Witness ==
    /\ pc[1] = "read"
    /\ dispatched[1] = <<LoadRequest(<<>>)>>
    /\ resps[1] = <<NOTFOUND>>
    /\ message[1] = STORE \o <<36>>
    /\ rpos[1] = 13

\* the concatenation of a sequence of byte strings
RECURSIVE Concat(_)
Concat(ss) == IF ss = <<>> THEN <<>> ELSE Head(ss) \o Concat(Tail(ss))

\* C6: a malformed rest closes the connection.  The handler never waits in a
\* read with a malformed buffer; when it has returned because the rest was
\* malformed, it has dispatched and answered exactly the requests before the
\* malformed bytes, the socket has got those responses and no other byte,
\* and no command of the connection is queued or in progress.  Nothing
\* changes that afterwards, whatever the client wrote after those bytes.
C6_MalformedCloses ==
    LET ref == ParseAll(Received(1))
    IN  /\ pc[1] = "read" => try_parse_request(message[1]).tag = "None"
        /\ pc[1] = "closed_malformed" =>
              /\ ref.tag = "Err"
              /\ dispatched[1] = ref.requests
              /\ Len(resps[1]) = Len(dispatched[1])
              /\ out[1] = Concat(resps[1])
              /\ \A i \in DOMAIN mailbox : mailbox[i].conn # 1
              /\ mgr.step = "recv"
              /\ reply[1] = NoReply

\* the handler has returned on a malformed byte that followed one request and
\* is followed, in the bytes the client wrote, by another complete request
C6_Witness ==
    /\ pc[1] = "closed_malformed"
    /\ Len(dispatched[1]) = 1
    /\ Len(resps[1]) = 1
    /\ garbage[1]
    /\ Len(sent[1]) = 13
    /\ ExactLoad(Drop(sent[1], 7))
    /\ rpos[1] = 13

\* the bytes of a sequence of requests
EncodeAll(requests) == Concat([i \in DOMAIN requests |-> encode(requests[i])])

\* C22: whenever the handler waits in a socket read its buffer is a strict
\* prefix of one request: it does not begin with a complete request and is
\* not malformed.  The bytes read are always the requests parsed so far
\* followed by the buffer: a parsed request is cut off the buffer's head and
\* what follows it is kept, and bytes that do not complete a request stay
\* in the buffer as they came.
C22_BufferIncompleteAtRead ==
    /\ pc[1] = "read" => UnfinishedRequest(message[1])
    /\ pc[1] \in {"read", "await", "write"} =>
          Received(1) = EncodeAll(dispatched[1]) \o message[1]
    /\ pc[1] = "send" =>
          Received(1) = EncodeAll(dispatched[1]) \o encode(cur[1]) \o message[1]

\* STORE$$a$ has been answered and the handler waits in a read with LOAD,
\* the first four bytes of the next request, in its buffer
C22_Witness ==
    /\ pc[1] = "read"
    /\ dispatched[1] = <<StoreRequest(<<>>, <<97>>)>>
    /\ resps[1] = <<DONE>>
    /\ message[1] = <<76, 79, 65, 68>>

(***************************************************************************)
(* Claims about concurrent connections of the file-backed variant,         *)
(* checked under SpecActor2.                                               *)
(***************************************************************************)
\* the response `bytes` is one the protocol gives to `request`
Answers(request, bytes) ==
    IF request.type = "Store"
    THEN bytes = DONE
    ELSE \/ bytes = NOTFOUND
         \/ /\ Len(bytes) >= 7
            /\ Take(bytes, 6) = <<70, 79, 85, 78, 68, 36>>
            /\ bytes[Len(bytes)] = 36
            /\ IsLower(SubSeq(bytes, 7, Len(bytes) - 1))

\* C2: on every connection the handler hands the socket one response per
\* parsed request, in the order of the requests.  The requests dispatched are
\* the first requests of the bytes read; the k-th response answers the k-th
\* of them (DONE$ to a Store, FOUND$<value>$ or NOTFOUND$ to a Load); a
\* request is dispatched only when every request before it has its response;
\* and when the handler reads again every parsed request has exactly one
\* response.  (A request is left without a response only when its handler
\* has returned because the request manager replied Err.)
C2_OneResponseInOrder ==
    \A c \in Conns :
        LET ref == ParseAll(Received(c))
        IN  /\ IsPrefix(dispatched[c], ref.requests)
            /\ Len(resps[c]) <= Len(dispatched[c])
            /\ Len(dispatched[c]) <= Len(resps[c]) + 1
            /\ \A k \in DOMAIN resps[c] : Answers(ref.requests[k], resps[c][k])
            /\ pc[c] = "read" =>
                  /\ dispatched[c] = ref.requests
                  /\ Len(resps[c]) = Len(ref.requests)

\* connection 1 has had STORE$$a$ and LOAD$$ answered, in this order, while
\* connection 2 has had a request of its own answered in between the two
C2_Witness ==
    /\ pc[1] = "read"
    /\ resps[1] = <<DONE, FOUND(<<97, 97>>)>>
    /\ dispatched[1] = <<StoreRequest(<<>>, <<97>>), LoadRequest(<<>>)>>
    /\ resps[2] = <<DONE>>

\* the replies a Load of `key` may get after the file operations h, if no
\* Load sees anything but whole values: after a Store that was done, its
\* value; after a Store that failed, its value or what was there before it
RECURSIVE WholeBindings(_, _)
WholeBindings(h, key) ==
    IF h = <<>> THEN {[kind |-> "ok_none"]}
    ELSE LET e == h[Len(h)]
             before == WholeBindings(Take(h, Len(h) - 1), key)
         IN  IF e.request.type = "Store" /\ e.request.key = key
             THEN (IF e.reply.kind = "ok_unit"
                   THEN {[kind |-> "ok_some", value |-> e.request.value]}
                   ELSE before \cup {[kind |-> "ok_some", value |-> e.request.value]})
             ELSE before

\* C5: a Load handled after a Store of (k, v) and before any later Store of
\* k replies exactly v, and no Load observes a partial or truncated value:
\* every Load that replies a value replies the whole value of the last Store
\* of its key or the whole value that was there before that Store.
C5_LoadSeesWholeValue ==
    \A i \in DOMAIN handled :
        (handled[i].request.type = "Load" /\ handled[i].reply.kind = "ok_some") =>
            handled[i].reply \in WholeBindings(Take(handled, i - 1), handled[i].request.key)

\* the commands sent to the request manager so far, in the order it handles
\* them: those it has replied to, the one it is handling, those in the mailbox
Pipeline ==
    [i \in DOMAIN handled |-> [conn |-> handled[i].conn, request |-> handled[i].request]]
      \o (IF mgr.step \in {"recv", "gone"} THEN <<>>
          ELSE <<[conn |-> mgr.conn, request |-> mgr.request]>>)
      \o mailbox

\* C18: the request manager handles the commands one at a time in the order
\* they were sent to the mailbox: a command is taken only when no other is
\* being handled, each reply is the reply to the command being handled and
\* ends its handling, and the order of handling is the order of sending.
C18_OneAtATimeInReceiveOrder ==
    [][/\ \/ Pipeline' = Pipeline
          \/ \E c \in Conns :
                Pipeline' = Append(Pipeline, [conn |-> c, request |-> cur[c]])
       /\ Len(mailbox') < Len(mailbox) =>
             /\ mgr.step = "recv"
             /\ mgr'.step \notin {"recv", "gone"}
             /\ mailbox' = Tail(mailbox)
       /\ handled' # handled =>
             /\ mgr.step \notin {"recv", "gone"}
             /\ mgr'.step = "recv"
             /\ handled' = Append(handled, [conn |-> mgr.conn, request |-> mgr.request,
                                            reply |-> reply'[mgr.conn]])
             /\ \A c \in Conns \ {mgr.conn} : reply'[c] = reply[c]]_vars

\* one command has been replied to, the manager is handling the command of
\* one connection and the command of the other connection waits in the mailbox
C18_Witness ==
    /\ Len(handled) = 1
    /\ mgr.step \notin {"recv", "gone"}
    /\ Len(mailbox) = 1
    /\ mailbox[1].conn # mgr.conn

\* C20: handle_load replies Ok(None) only when the file of the key is absent;
\* a Load whose key has a file is never answered Ok(None), whatever goes
\* wrong while the file is opened or read.
C20_NotFoundOnlyWhenAbsent ==
    [][\A i \in DOMAIN handled' :
          (i > Len(handled) /\ handled'[i].request.type = "Load"
                            /\ handled'[i].reply.kind = "ok_none")
             => ~HasFile(handled'[i].request.key)]_vars

\* the commands of connection c that are in the mailbox or being handled
Outstanding(c) ==
    Cardinality({i \in DOMAIN mailbox : mailbox[i].conn = c})
      + (IF mgr.step \notin {"recv", "gone"} /\ mgr.conn = c THEN 1 ELSE 0)

StoredOk(key) ==
    {j \in DOMAIN handled : /\ handled[j].request.type = "Store"
                            /\ handled[j].request.key = key
                            /\ handled[j].reply.kind = "ok_unit"}

\* C25: a Store that is answered Err leaves the binding of its key as it was.
\* Whenever the request manager is between two commands, every key's file
\* holds the value of the last Store of the key that was answered Ok(()),
\* and a key no Store of which succeeded has no file: no failed Store
\* leaves an empty or partial value behind.
C25_FailedStoreLeavesBinding ==
    mgr.step = "recv" =>
        \A i \in DOMAIN files :
            /\ StoredOk(files[i].key) # {}
            /\ \E j \in StoredOk(files[i].key) :
                  /\ \A m \in StoredOk(files[i].key) : m <= j
                  /\ files[i].bytes = as_bytes(handled[j].request.value)

(***************************************************************************)
(* Claims about the in-memory server, checked under SpecMem1 (one          *)
(* connection, every chunking) and SpecMem2 (two connections).             *)
(***************************************************************************)
\* no extension of the buffer begins with a request
Malformed(b) == ~BeginsWithRequest(b) /\ ~UnfinishedRequest(b)

\* C3: after a read the in-memory handler processes every complete request
\* the buffer holds before it reads again: whenever it waits in a read, its
\* buffer does not begin with a complete request.
C3_MainProcessesEveryRequest ==
    pc[1] = "read" => ~BeginsWithRequest(message[1])

\* C7: the in-memory handler returns as soon as its buffer is malformed: it
\* never waits in a read with a malformed buffer.
C7_MainMalformedCloses ==
    pc[1] = "read" => ~Malformed(message[1])

\* the positions in the history of the map operations of connection c
OpsOf(c) == SelectSeq([i \in 1..Len(hist) |-> i], LAMBDA i : hist[i].conn = c)

\* the response the protocol gives to the i-th map operation, the map being
\* what the operations before it made of it
ExpectedResponse(i) ==
    IF hist[i].op = "put" THEN DONE
    ELSE LET puts == {j \in 1..(i - 1) : hist[j].op = "put" /\ hist[j].key = hist[i].key}
         IN  IF puts = {} THEN NOTFOUND
             ELSE FOUND(hist[CHOOSE j \in puts : \A m \in puts : m <= j].value)

\* C4: with concurrent connections the map operations take effect one at a
\* time, in the order in which they hold the lock, and every response is the
\* one this order gives: a LOAD of k is answered FOUND$v$ for the value v of
\* the last STORE of k done before it, on whatever connection, and NOTFOUND$
\* if there is none; of two STOREs of one key the one that got the lock last
\* is the one later LOADs see.
C4_Linearizable ==
    \A c \in Conns :
        /\ Len(resps[c]) <= Len(OpsOf(c))
        /\ Len(OpsOf(c)) <= Len(resps[c]) + 1
        /\ \A k \in DOMAIN resps[c] : resps[c][k] = ExpectedResponse(OpsOf(c)[k])

\* connection 1 stored a, then connection 2 stored b under the same key, then
\* connection 1 loaded the key and was answered FOUND$b$
C4_Witness ==
    /\ Len(hist) = 3
    /\ hist[1] = [op |-> "put", conn |-> 1, key |-> <<>>, value |-> <<97>>]
    /\ hist[2] = [op |-> "put", conn |-> 2, key |-> <<>>, value |-> <<98>>]
    /\ hist[3].op = "get" /\ hist[3].conn = 1
    /\ resps[1] = <<DONE, FOUND(<<98>>)>>
    /\ resps[2] = <<DONE>>

\* the map operations before the i-th that stored under the i-th's key
PutsBefore(i) == {j \in 1..(i - 1) : hist[j].op = "put" /\ hist[j].key = hist[i].key}

\* C15: a LOAD is answered NOTFOUND$ exactly when no STORE of its key was
\* done before it, and FOUND$v$ with the bound value v otherwise, the empty
\* value included (FOUND$$): no value that can be stored is reported absent.
C15_NotFoundIffUnbound ==
    \A c \in Conns :
        \A k \in DOMAIN resps[c] :
            LET i == OpsOf(c)[k]
            IN  hist[i].op = "get" =>
                  /\ resps[c][k] = NOTFOUND <=> PutsBefore(i) = {}
                  /\ resps[c][k] # NOTFOUND =>
                        \E j \in PutsBefore(i) :
                            /\ \A m \in PutsBefore(i) : m <= j
                            /\ resps[c][k] = <<70, 79, 85, 78, 68, 36>> \o hist[j].value \o <<36>>

\* connection 1 stored the empty value and connection 2 then loaded the key:
\* it was answered FOUND$$
C15_Witness ==
    /\ Len(hist) = 2
    /\ hist[1] = [op |-> "put", conn |-> 1, key |-> <<>>, value |-> <<>>]
    /\ hist[2].op = "get" /\ hist[2].conn = 2
    /\ resps[2] = <<<<70, 79, 85, 78, 68, 36, 36>>>>

\* C19: the mutex of the map is held only between db.lock() and the map
\* operation; a handler that waits in socket.read or socket.write, or that has
\* returned, does not hold it, so whoever holds the lock is about to do its
\* map operation and release it.
C19_LockNotHeldAcrossIO ==
    /\ lock \in {0} \cup Conns
    /\ \A c \in Conns :
          /\ lock = c => pc[c] \in {"insert", "get"}
          /\ pc[c] \in {"insert", "get"} => lock = c

\* connection 1 is writing DONE$ to its socket while connection 2 holds the lock
C19_Witness ==
    /\ pc[1] = "store_write"
    /\ pc[2] = "insert"
    /\ lock = 2

(***************************************************************************)
(* Claim about closed connections, checked under SpecEof.                  *)
(***************************************************************************)
\* the peer of connection c has closed and everything it wrote has been read:
\* the handler of c ends
PeerClosedTerminates(c) == (eof[c] /\ Unread(c) = <<>>) ~> (pc[c] \in Closed)

\* C16: in both servers, once the peer has closed the connection, so that
\* socket.read returns zero bytes, the handler ends and the socket is closed;
\* no handler keeps looping on a connection whose peer has closed.
C16_PeerClosedTerminates ==
    /\ PeerClosedTerminates(1)
    /\ PeerClosedTerminates(2)

(***************************************************************************)
(* Claim about the buffer cap of the in-memory server, checked under       *)
(* SpecCap.                                                                *)
(***************************************************************************)
\* C17: the in-memory handler ends a connection for length only when its
\* buffer holds more than MAX_MESSAGE_LENGTH bytes and no correct request
\* at its head; a client that sends only correct requests, each far shorter
\* than the cap, is never disconnected because of the cap.
C17_CapSparesConformingClient ==
    \A c \in Conns :
        pc[c] = "closed_error" =>
            /\ StrLen(message[c]) > MAX_MESSAGE_LENGTH
            /\ ~main_is_store_request(message[c])
            /\ ~main_is_load_request(message[c])

(***************************************************************************)
(* Claim about handlers that end before their reply, checked under         *)
(* SpecDrop.                                                               *)
(***************************************************************************)
\* C21: when the handler that sent a command has ended before the request
\* manager replies, the manager discards the reply and does not stop: it
\* returns to recv, the file of an orphaned Store is written all the same,
\* and a handler that waits for a reply gets one.
C21_OrphanedReplyDiscarded ==
    /\ [](mgr.step # "gone")
    /\ [][handled' # handled =>
             LET r == handled'[Len(handled')].reply
             IN  /\ mgr'.step = "recv"
                 /\ pc[mgr.conn] # "await" => reply' = reply
                 /\ pc[mgr.conn] = "await" => reply'[mgr.conn] = r
                 /\ (mgr.request.type = "Store" /\ r.kind = "ok_unit") =>
                       \E i \in DOMAIN files' :
                           /\ files'[i].key = mgr.request.key
                           /\ files'[i].bytes = as_bytes(mgr.request.value)]_vars
    /\ \A c \in Conns : (pc[c] = "await") ~> (pc[c] # "await")

\* the handler of connection 1 was dropped before the reply to its Store; the
\* file was written, and the Load of connection 2, sent afterwards, was
\* answered with the value
C21_Witness ==
    /\ pc[1] = "closed_dropped"
    /\ reply[1] = NoReply
    /\ Len(handled) = 2
    /\ handled[1].conn = 1 /\ handled[1].request.type = "Store"
    /\ handled[1].reply.kind = "ok_unit"
    /\ handled[2].conn = 2 /\ handled[2].request.type = "Load"
    /\ resps[2] = <<FOUND(handled[1].request.value)>>

(***************************************************************************)
(* Claim about the bytes of the responses, checked under SpecShort.        *)
(***************************************************************************)
\* C23: the bytes a client has received on a connection are always a prefix
\* of the concatenation of the complete responses to its requests, even when
\* a socket write accepts fewer bytes than it was offered: a truncated
\* response is never followed by another response.
C23_ResponsesWhole ==
    \A c \in Conns : IsPrefix(out[c], Concat(resps[c]))

(***************************************************************************)
(* Claims about the two servers side by side, checked under SpecBoth.      *)
(***************************************************************************)
\* C13: the two servers are equivalent for one client.  Whenever both
\* handlers have done all they do with the bytes written so far, they have
\* written the same bytes to the client, and either both have closed the
\* connection or neither has.
C13_BackendEquivalence ==
    (Quiet(1) /\ Quiet(2)) =>
        /\ out[1] = out[2]
        /\ pc[1] \in Closed <=> pc[2] \in Closed

(***************************************************************************)
(* Claims about the failures of the file-backed variant, checked under     *)
(* SpecActor3.                                                             *)
(***************************************************************************)
\* the request manager replied Err to the last command it handled
LastReplyErr == handled # <<>> /\ handled[Len(handled)].reply.kind = "err"

\* C14: failures are never reported as protocol data.  Every buffer handed
\* to socket.write is DONE$, NOTFOUND$ or FOUND$<value>$ and the socket gets
\* nothing else.  Once the handler has got an Err reply, it has returned
\* with no response to that request and nothing dispatched after it.  Once
\* the request manager is gone, the handler writes nothing: a command it had
\* queued has its reply channel closed, one it is about to send cannot be
\* sent, and either way its only step is to return.
C14_FailureSemantics ==
    /\ \A k \in DOMAIN resps[1] :
          Answers(StoreRequest(<<>>, <<>>), resps[1][k])
            \/ Answers(LoadRequest(<<>>), resps[1][k])
    /\ out[1] = Concat(resps[1])
    /\ (LastReplyErr /\ reply[1] = NoReply) =>
          /\ pc[1] = "closed_error"
          /\ Len(dispatched[1]) = Len(handled)
          /\ Len(resps[1]) = Len(dispatched[1]) - 1
          /\ mailbox = <<>>
    /\ mgr.step = "gone" =>
          /\ resps[1] = <<>>
          /\ Len(dispatched[1]) <= 1
          /\ pc[1] \in {"read", "send", "await", "closed_error"}
          /\ pc[1] = "await" => reply[1] = [kind |-> "dropped"]
          /\ mailbox = <<>>

\* STORE$$a$LOAD$$ came in one read; the Store got the reply Err; the handler
\* has returned with LOAD$$ in its buffer, nothing written
C14_Witness ==
    /\ LastReplyErr /\ reply[1] = NoReply
    /\ pc[1] = "closed_error"
    /\ dispatched[1] = <<StoreRequest(<<>>, <<97>>)>>
    /\ message[1] = encode(LoadRequest(<<>>))
    /\ out[1] = <<>>

=============================================================================
